---- MODULE Spec2Model ----
(***************************************************************************)
(* ExtrudeGeometryFilter (osgEarthFeatures/ExtrudeGeometryFilter.cpp).     *)
(*                                                                         *)
(* Two specifications share the module:                                    *)
(*   SpecExtrude  one call of extrudeGeometry on a bounded family of       *)
(*                shapes (the extrusion engine as a pure function);        *)
(*   Spec         a filter object driven by setStyle / setHeightCallback / *)
(*                push, with push broken into reset, one process step per  *)
(*                top-level part, and the final assembly of the group.     *)
(*                                                                         *)
(* Coordinates are integers.  The session's map is projected               *)
(* (isGeocentric() = false), so the makeECEF branch is not taken.          *)
(***************************************************************************)
EXTENDS Integers, Sequences, FiniteSets, Bags, TLC

\* ------------------------------------------------------------------ bounds
MaxParts == 2      \* parts (rings) of a shape handed to extrudeGeometry
MaxLen == 3        \* points per part
MaxFeatures == 2   \* features in the list handed to push
MaxPushes == 2     \* pushes counted by SpecPushes
MaxRing == 4       \* points of a ring handed to getApparentRotation

DBL_MAX == 1000000 \* stands for <cfloat> DBL_MAX: larger than any coordinate

NULL == 0          \* a null skin / callback pointer; also the "no state set" key

\* ------------------------------------------------------------- geometry
POLYGON == "POLYGON"
LINESTRING == "LINESTRING"
Types == {POLYGON, LINESTRING}

Zs == {0, 1}
Heights == {1, 2}
Offsets == {0, 1}

RECURSIVE SumLen(_)
SumLen(parts) ==
    IF parts = <<>> THEN 0 ELSE Len(Head(parts)) + SumLen(Tail(parts))

\* Geometry::getTotalPointCount
getTotalPointCount(input) == SumLen(input.parts)

\* osg::Vec3Array( n ): n zero vectors, indexed from 0
NewVec3Array(n) == [i \in 0..(n - 1) |-> <<0, 0, 0>>]

\* a null SkinResource pointer
NoSkin == [null |-> TRUE]

\* ---------------------------------------------------------------- numbers
\* A double that is a quotient of integers is the pair [n, d] in lowest
\* terms with d > 0. A division by zero gives d = 0: n = 1 for +inf, -1 for
\* -inf, 0 for NaN.
Abs(x) == IF x < 0 THEN -x ELSE x
Sign(x) == IF x < 0 THEN -1 ELSE IF x > 0 THEN 1 ELSE 0

RECURSIVE GCD(_, _)
GCD(x, y) == IF y = 0 THEN x ELSE GCD(y, x % y)

\* the double n / d, d # 0
Rat(n, d) ==
    LET g == GCD(Abs(n), Abs(d))
    IN  [n |-> Sign(d) * (n \div g), d |-> Abs(d) \div g]

\* the double x / y
RatDiv(x, y) ==
    IF y.n = 0 THEN [n |-> Sign(x.n), d |-> 0]
    ELSE Rat(x.n * y.d, x.d * y.n)

RatNeg(x) == [n |-> -x.n, d |-> x.d]
IsFinite(x) == x.d # 0

\* osg::round: v >= 0 ? floor(v + 0.5) : ceil(v - 0.5)
Round(v) ==
    IF v.n >= 0
    THEN (2 * v.n + v.d) \div (2 * v.d)
    ELSE -((2 * (-v.n) + v.d) \div (2 * v.d))

\* (u - v).length2()
Length2(u, v) ==
    (u[1] - v[1]) * (u[1] - v[1]) + (u[2] - v[2]) * (u[2] - v[2])
    + (u[3] - v[3]) * (u[3] - v[3])

\* (u - v).length() where u and v differ in one coordinate only: the root of
\* a square number
Sqrt(n) == CHOOSE r \in 0..n : r * r = n
VerticalLength(u, v) == Sqrt(Length2(u, v))

\* A sum of lengths is the bag of their squares, zero lengths left out: the
\* bag stands for the sum of the roots of its elements.
NoLength == EmptyBag
AddLength(len, u, v) ==
    IF Length2(u, v) = 0 THEN len ELSE len (+) SetToBag({Length2(u, v)})

\* ---------------------------------------------------- getApparentRotation
\* Segment n: a pair of zero vectors
ZeroSegment == <<<<0, 0, 0>>, <<0, 0, 0>>>>

\* ConstSegmentIterator( geom, true ): the segments between consecutive
\* points and the closing segment from the last point to the first; none
\* for fewer than 2 points
Segments(geom) ==
    IF Len(geom) < 2 THEN <<>>
    ELSE [i \in 1..Len(geom) |-> <<geom[i], geom[(i % Len(geom)) + 1]>>]

\* variant: a segment as long as the longest so far replaces it
LongestStep_LastWins(b, s) ==
    LET len2 == Length2(s[2], s[1])
    IN  IF len2 >= b.maxLen2 THEN [maxLen2 |-> len2, n |-> s] ELSE b

\* if ( len2 > maxLen2 ) { maxLen2 = len2; n = s; }
LongestStep(b, s) ==
    LET len2 == Length2(s[2], s[1])
    IN  IF len2 > b.maxLen2 THEN [maxLen2 |-> len2, n |-> s] ELSE b

RECURSIVE Longest(_, _)
Longest(b, segs) ==
    IF segs = <<>> THEN b ELSE Longest(LongestStep(b, Head(segs)), Tail(segs))

\* variant: on equal x the endpoints keep their order
Orient_KeepOnTie(n) ==
    IF n[1][1] <= n[2][1] THEN <<n[1], n[2]>> ELSE <<n[2], n[1]>>

\* p1 = n.first.x() < n.second.x() ? n.first : n.second, and p2 the other
Orient(n) ==
    IF n[1][1] < n[2][1] THEN <<n[1], n[2]>> ELSE <<n[2], n[1]>>

\* atan2( y, x ): the angle is named by its direction in lowest terms;
\* atan2( 0, x ) is 0 for every x >= 0
ZeroAngle == [y |-> 0, x |-> 1]
Atan2(y, x) ==
    IF y = 0 /\ x >= 0 THEN ZeroAngle
    ELSE LET g == GCD(Abs(y), Abs(x))
         IN  [y |-> Sign(y) * (Abs(y) \div g), x |-> Sign(x) * (Abs(x) \div g)]

\* getApparentRotation( geom ); the result names the retained segment n next
\* to the angle returned
getApparentRotation(geom) ==
    LET b == Longest([maxLen2 |-> 0, n |-> ZeroSegment], Segments(geom))
        p == Orient(b.n)
    IN  [n     |-> b.n,
         angle |-> Atan2(p[2][2] - p[1][2], p[2][1] - p[1][1])]

\* the rings of SpecRotation: up to MaxRing corners of the unit square
RingPoints == {<<x, y, 0>> : x \in 0..1, y \in 0..1}
Rings == UNION {[1..n -> RingPoints] : n \in 0..MaxRing}
NoRotation == [null |-> TRUE]

\* ------------------------------------------------- extrudeGeometry, pass 1
ZFinderInit ==
    [targetLen |-> -DBL_MAX,
     minLoc    |-> <<DBL_MAX, DBL_MAX, DBL_MAX>>,
     maxLoc    |-> <<0, 0, 0>>]

ZFinderStep(b, m_point, height) ==
    [targetLen |-> IF m_point[3] + height > b.targetLen
                   THEN m_point[3] + height ELSE b.targetLen,
     minLoc    |-> IF m_point[3] < b.minLoc[3] THEN m_point ELSE b.minLoc,
     maxLoc    |-> IF m_point[3] > b.maxLoc[3] THEN m_point ELSE b.maxLoc]

RECURSIVE ZFinderPart(_, _, _)
ZFinderPart(b, geom, height) ==
    IF geom = <<>> THEN b
    ELSE ZFinderPart(ZFinderStep(b, Head(geom), height), Tail(geom), height)

\* variant: the bounds taken from the first part alone
ZFinder_FirstPartOnly(b, parts, height) ==
    IF parts = <<>> THEN b ELSE ZFinderPart(b, Head(parts), height)

\* "Initial pass over the geometry": every point of every part
RECURSIVE ZFinder(_, _, _)
ZFinder(b, parts, height) ==
    IF parts = <<>> THEN b
    ELSE ZFinder(ZFinderPart(b, Head(parts), height), Tail(parts), height)

\* ------------------------------------------------- extrudeGeometry, pass 2
\* variant: every roof point is put at the target elevation
RoofPt_AlwaysFlat(basePt, flatten, height, targetLen) ==
    <<basePt[1], basePt[2], targetLen>>

\* the roof point of a base point
RoofPt(basePt, flatten, height, targetLen) ==
    IF flatten
    THEN <<basePt[1], basePt[2], targetLen>>
    ELSE <<basePt[1], basePt[2], basePt[3] + height>>

\* variant: the closing triangles return to vertices 0/1 of the whole mesh
WallTriangles_NoPartStart(isPolygon, isLast, wallVertPtr, wallPartPtr) ==
    IF isLast
    THEN IF isPolygon
         THEN <<wallVertPtr, wallVertPtr + 1, 0,
                wallVertPtr + 1, 1, 0>>
         ELSE <<>>
    ELSE <<wallVertPtr, wallVertPtr + 1, wallVertPtr + 2,
           wallVertPtr + 1, wallVertPtr + 3, wallVertPtr + 2>>

\* variant: the last point of a part is joined to the pair after it
WallTriangles_NoLastPoint(isPolygon, isLast, wallVertPtr, wallPartPtr) ==
    <<wallVertPtr, wallVertPtr + 1, wallVertPtr + 2,
      wallVertPtr + 1, wallVertPtr + 3, wallVertPtr + 2>>

\* variant: the last point closes the loop whatever the component type
WallTriangles_LineWraps(isPolygon, isLast, wallVertPtr, wallPartPtr) ==
    IF isLast
    THEN <<wallVertPtr, wallVertPtr + 1, wallPartPtr,
           wallVertPtr + 1, wallPartPtr + 1, wallPartPtr>>
    ELSE <<wallVertPtr, wallVertPtr + 1, wallVertPtr + 2,
           wallVertPtr + 1, wallVertPtr + 3, wallVertPtr + 2>>

\* "form the 2 triangles": the indices pushed for one point
WallTriangles(isPolygon, isLast, wallVertPtr, wallPartPtr) ==
    IF isLast
    THEN IF isPolygon
         THEN <<wallVertPtr, wallVertPtr + 1, wallPartPtr,
                wallVertPtr + 1, wallPartPtr + 1, wallPartPtr>>
         ELSE <<>>
    ELSE <<wallVertPtr, wallVertPtr + 1, wallVertPtr + 2,
           wallVertPtr + 1, wallVertPtr + 3, wallVertPtr + 2>>

\* variant: the first point of a later part is measured from the vertex
\* before it
PartLenStep_AcrossParts(partLen, verts, p, wallVertPtr, wallPartPtr) ==
    IF wallVertPtr > 0 THEN AddLength(partLen, verts[p], verts[p - 2]) ELSE partLen

\* partLen += wallVertPtr > wallPartPtr ? (verts[p] - verts[p-2]).length() : 0.0
PartLenStep(partLen, verts, p, wallVertPtr, wallPartPtr) ==
    IF wallVertPtr > wallPartPtr THEN AddLength(partLen, verts[p], verts[p - 2])
    ELSE partLen

\* The body of the loop over the points of one part, in three steps; k is
\* the position of the point in the part, e the emission state, a the call's
\* arguments. First the roof point and the vertices of the point:
StorePoint(e, part, k, a, targetLen, height) ==
    LET basePt == part[k]
        roofPt == RoofPt(basePt, a.flatten, height, targetLen)
        p      == e.wallVertPtr
    IN  [e EXCEPT
           !.baseVerts   = IF a.base THEN [@ EXCEPT ![e.baseVertPtr] = basePt] ELSE @,
           !.baseVertPtr = IF a.base THEN @ + 1 ELSE @,
           !.roofVerts   = IF a.roof THEN [@ EXCEPT ![e.roofVertPtr] = roofPt] ELSE @,
           !.roofVertPtr = IF a.roof THEN @ + 1 ELSE @,
           !.verts       = [@ EXCEPT ![p] = roofPt, ![p + 1] = basePt]]

\* the texture coordinates of the point whose vertices were stored at p
\* and p+1
TexturePoint(e, a, p, partLen) ==
    LET h == IF e.tex_repeats_y
             THEN Rat(-VerticalLength(e.verts[p], e.verts[p + 1]), 1)
             ELSE RatNeg(e.tex_height_m_adj)
        \* partLen/tex_width_m, kept as the pair
        u == [len |-> partLen, per |-> e.tex_width_m]
    IN  [e EXCEPT
           !.partLen   = partLen,
           !.texcoords = IF a.wallSkin # NoSkin
                         THEN [@ EXCEPT ![p] = <<u, Rat(0, 1)>>,
                                        ![p + 1] = <<u, RatDiv(h, e.tex_height_m_adj)>>]
                         ELSE @]

\* partLen and the texture coordinates of the point just stored
TexturedPoint(e, a) ==
    TexturePoint(e, a, e.wallVertPtr,
                 PartLenStep(e.partLen, e.verts, e.wallVertPtr,
                             e.wallVertPtr, e.wallPartPtr))

\* the triangles of the point, and the step to the next vertex pair
IndexPoint(e, part, k, a) ==
    [e EXCEPT
       !.idx         = @ \o WallTriangles(a.input.type = POLYGON, k = Len(part),
                                          e.wallVertPtr, e.wallPartPtr),
       !.wallVertPtr = @ + 2,
       !.made_geom   = TRUE]

\* the body of the loop over the points of one part
ExtrudePoint(e, part, k, a, targetLen, height) ==
    IndexPoint(TexturedPoint(StorePoint(e, part, k, a, targetLen, height), a),
               part, k, a)

RECURSIVE ExtrudePoints(_, _, _, _, _, _)
ExtrudePoints(e, part, k, a, targetLen, height) ==
    IF k > Len(part) THEN e
    ELSE ExtrudePoints(ExtrudePoint(e, part, k, a, targetLen, height),
                       part, k + 1, a, targetLen, height)

\* "reverse the base verts": for( int i=basePartPtr; i<len/2; i++ ) swap
RECURSIVE ReverseBaseVerts(_, _, _, _)
ReverseBaseVerts(baseVerts, i, basePartPtr, len) ==
    IF i < len \div 2
    THEN LET j == basePartPtr + (len - 1) - i
         IN  ReverseBaseVerts([baseVerts EXCEPT ![i] = baseVerts[j],
                                                ![j] = baseVerts[i]],
                              i + 1, basePartPtr, len)
    ELSE baseVerts

\* "Adjust the texture height so it is a multiple of the maximum height"
AdjustedTexHeight(maxHeight, tex_height_m) ==
    LET div0 == Round(RatDiv(Rat(maxHeight, 1), Rat(tex_height_m, 1)))
        div  == IF div0 = 0 THEN 1 ELSE div0
    IN  RatDiv(Rat(maxHeight, 1), Rat(div, 1))

\* the start of an iteration of the loop over the parts
BeginPart(e, targetLen) ==
    [e EXCEPT !.wallPartPtr = e.wallVertPtr,
              !.roofPartPtr = e.roofVertPtr,
              !.basePartPtr = e.baseVertPtr,
              !.partLen = NoLength,
              !.tex_height_m_adj = AdjustedTexHeight(targetLen - e.minLoc[3],
                                                     e.tex_height_m),
              !.idx = <<>>]

\* the end of the iteration: the primitive sets of the part
EndPart(e1, a) ==
    [e1 EXCEPT
           !.wallPrims = Append(@, e1.idx),
           !.roofPrims = IF a.roof
                         THEN Append(@, <<e1.roofPartPtr, e1.roofVertPtr - e1.roofPartPtr>>)
                         ELSE @,
           !.baseVerts = IF a.base
                         THEN ReverseBaseVerts(@, e1.basePartPtr, e1.basePartPtr,
                                               e1.baseVertPtr - e1.basePartPtr)
                         ELSE @,
           !.basePrims = IF a.base
                         THEN Append(@, <<e1.basePartPtr, e1.baseVertPtr - e1.basePartPtr>>)
                         ELSE @]

\* one iteration of the loop over the parts
ExtrudePart(e, part, a, targetLen, height) ==
    EndPart(ExtrudePoints(BeginPart(e, targetLen), part, 1, a, targetLen, height), a)

RECURSIVE ExtrudeParts(_, _, _, _, _)
ExtrudeParts(e, parts, a, targetLen, height) ==
    IF parts = <<>> THEN e
    ELSE ExtrudeParts(ExtrudePart(e, Head(parts), a, targetLen, height),
                      Tail(parts), a, targetLen, height)

\* what extrudeGeometry leaves in walls, roof and base, and its return value
Extruded(e) ==
    [made_geom |-> e.made_geom,
     verts     |-> e.verts,
     texcoords |-> e.texcoords,
     wallPrims |-> e.wallPrims,
     roofVerts |-> e.roofVerts,
     roofPrims |-> e.roofPrims,
     baseVerts |-> e.baseVerts,
     basePrims |-> e.basePrims]

\* extrudeGeometry( input, height, heightOffset, flatten, walls, roof, base,
\* wallSkin ) where the map is not geocentric:
\* a.roof / a.base say whether the roof / base geometry pointer is non-null
extrudeGeometry(a) ==
    LET tex_width_m   == IF a.wallSkin # NoSkin THEN a.wallSkin.imageWidth ELSE 1
        tex_height_m  == IF a.wallSkin # NoSkin THEN a.wallSkin.imageHeight ELSE 1
        tex_repeats_y == IF a.wallSkin # NoSkin THEN a.wallSkin.isTiled ELSE FALSE
        pointCount == getTotalPointCount(a.input)
        numVerts   == 2 * pointCount
        b          == ZFinder(ZFinderInit, a.input.parts, a.height)
        height     == a.height - a.heightOffset
        targetLen  == b.targetLen - a.heightOffset
        e0 == [verts       |-> NewVec3Array(numVerts),
               texcoords   |-> IF a.wallSkin # NoSkin
                               THEN [i \in 0..(numVerts - 1) |->
                                       <<[len |-> NoLength, per |-> tex_width_m], Rat(0, 1)>>]
                               ELSE <<>>,
               tex_width_m |-> tex_width_m, tex_height_m |-> tex_height_m,
               tex_repeats_y |-> tex_repeats_y,
               tex_height_m_adj |-> Rat(tex_height_m, 1),
               partLen     |-> NoLength,
               minLoc      |-> b.minLoc,
               roofVerts   |-> IF a.roof THEN NewVec3Array(pointCount) ELSE <<>>,
               baseVerts   |-> IF a.base THEN NewVec3Array(pointCount) ELSE <<>>,
               wallVertPtr |-> 0, roofVertPtr |-> 0, baseVertPtr |-> 0,
               wallPartPtr |-> 0, roofPartPtr |-> 0, basePartPtr |-> 0,
               idx         |-> <<>>,
               wallPrims   |-> <<>>, roofPrims |-> <<>>, basePrims |-> <<>>,
               made_geom   |-> FALSE]
    IN  Extruded(ExtrudeParts(e0, a.input.parts, a, targetLen, height))

\* ------------------------------------------ the shapes of SpecExtrude
\* part lengths of a shape: 1..MaxParts parts of 0..MaxLen points
Profiles == UNION {[1..k -> 0..MaxLen] : k \in 1..MaxParts}

RECURSIVE SumSeq(_)
SumSeq(s) == IF s = <<>> THEN 0 ELSE Head(s) + SumSeq(Tail(s))

Start(prof, j) == SumSeq(SubSeq(prof, 1, j - 1))

\* the elevations along a part: constant at z0, or alternating from z0
ZPatterns == Zs \X BOOLEAN
PatternZ(pat, k) == IF pat[2] THEN (pat[1] + k - 1) % 2 ELSE pat[1]

\* the g-th point of the shape (g counts across the parts) is <<g, j, z>>,
\* j its part: all points of a shape are distinct
BuildInput(t, prof, pats) ==
    [type  |-> t,
     parts |-> [j \in 1..Len(prof) |->
                  [k \in 1..prof[j] |->
                     <<Start(prof, j) + k, j, PatternZ(pats[j], k)>>]]]

Inputs ==
    UNION {{BuildInput(t, prof, pats) : t \in Types, pats \in [1..Len(prof) -> ZPatterns]}
           : prof \in Profiles}

NoCall == [made_geom |-> FALSE]

\* ------------------------------------------------ styles and the session
HEIGHT_REFERENCE_Z == "Z"
HEIGHT_REFERENCE_MSL == "MSL"
Unset == ""        \* an optional<> that is not set; a null library
NullSym == [null |-> TRUE]   \* a null symbol pointer
NoGroup == [null |-> TRUE]   \* no group returned yet

SkinSymbol(lib) == [libraryName |-> lib]

\* the session's style sheet: its named styles and its resource libraries
SheetSkin(name) ==
    IF name = "wallstyle" THEN SkinSymbol("walls")
    ELSE IF name = "roofstyle" THEN SkinSymbol("roofs")
    ELSE NullSym
\* the skins of a resource library (null library: none)
LibSkins(lib) ==
    IF lib = "walls" THEN {1, 2} ELSE IF lib = "roofs" THEN {3} ELSE {}
\* the skin resources of the libraries
SkinResource(skin) ==
    IF skin = 1 THEN [imageWidth |-> 2, imageHeight |-> 1, isTiled |-> FALSE]
    ELSE IF skin = 2 THEN [imageWidth |-> 2, imageHeight |-> 3, isTiled |-> TRUE]
    ELSE [imageWidth |-> 1, imageHeight |-> 1, isTiled |-> FALSE]
getResourceLibrary(name) == IF LibSkins(name) # {} THEN name ELSE Unset

ExtrusionSymbol(expr, ref, flat, wallStyle, roofStyle) ==
    [heightExpression |-> expr,
     height           |-> 3,
     heightReference  |-> ref,
     flatten          |-> flat,
     wallStyleName    |-> wallStyle,
     roofStyleName    |-> roofStyle]

Style(sym, skin) == [extrusion |-> sym, skin |-> skin]

\* the styles setStyle is called with
Styles ==
    {Style(NullSym, NullSym),
     Style(ExtrusionSymbol(Unset, HEIGHT_REFERENCE_Z, TRUE, Unset, Unset), NullSym),
     Style(ExtrusionSymbol("h1", HEIGHT_REFERENCE_MSL, FALSE, Unset, Unset), NullSym),
     Style(ExtrusionSymbol("h2", HEIGHT_REFERENCE_Z, TRUE, "wallstyle", "roofstyle"), NullSym),
     Style(ExtrusionSymbol(Unset, HEIGHT_REFERENCE_MSL, TRUE, Unset, Unset),
           SkinSymbol("roofs")),
     Style(ExtrusionSymbol("h1", HEIGHT_REFERENCE_Z, FALSE, "nostyle", Unset),
           SkinSymbol("missing"))}

\* ------------------------------------------------------------- features
Polygon(rings) == [type |-> POLYGON, parts |-> rings]
LineString(pts) == [type |-> LINESTRING, parts |-> <<pts>>]

\* a feature: the top-level parts of its geometry, in the order
\* GeometryIterator( geom, false ) yields them, and its attributes
Features ==
    {[geom  |-> <<Polygon(<< <<<<0, 0, 0>>, <<2, 0, 0>>, <<2, 2, 1>>, <<0, 0, 0>>>> >>)>>,
      attrs |-> [h1 |-> 1, h2 |-> 2, max_z |-> 1]],
     [geom  |-> <<Polygon(<< <<<<5, 5, 0>>>> >>)>>,
      attrs |-> [h1 |-> 1, h2 |-> 2, max_z |-> 1]],
     [geom  |-> <<LineString(<<>>),
                  LineString(<<<<3, 3, 1>>, <<4, 3, 0>>>>)>>,
      attrs |-> [h1 |-> 2, h2 |-> 1, max_z |-> 2]]}

FeatureLists == UNION {[1..n -> Features] : n \in 0..MaxFeatures}

\* Feature::eval( expr ): the expressions of the model name one attribute
Eval(expr, feature) ==
    IF expr = "h1" THEN feature.attrs.h1
    ELSE IF expr = "h2" THEN feature.attrs.h2
    ELSE IF expr = "[__max_z]" THEN feature.attrs.max_z
    ELSE 0

\* what the installed height callback returns for a feature
CallbackHeight(feature) == 5 + feature.attrs.h1

\* Ring::open: drop the closing point that repeats the first one
RECURSIVE OpenRing(_)
OpenRing(r) ==
    IF Len(r) > 2 /\ r[1] = r[Len(r)] THEN OpenRing(SubSeq(r, 1, Len(r) - 1)) ELSE r
\* Polygon::open
Open(poly) == [poly EXCEPT !.parts = [j \in 1..Len(poly.parts) |-> OpenRing(poly.parts[j])]]

VARIABLES
    exArgs, exOut, exDone,      \* SpecExtrude: the call and its result
    rotGeom, rotOut,            \* SpecRotation: the ring and the call's result
    _style, _styleDirty,
    _extrusionSymbol, _heightExpr, _heightOffsetExpr,
    _wallSkinSymbol, _roofSkinSymbol,
    _wallResLib, _roofResLib,
    _heightCallback,
    _geodes,                    \* state key -> [id, stateSet, drawables]
    geodeCount,                 \* geodes allocated by the running push
    pc,                         \* "idle", "process", "returned", "fault"
    input, fi, pi,              \* push's feature list; feature and part in process
    result,                     \* the group push returns
    pushNo                      \* SpecPushes: the pushes begun so far

rotVars == <<rotGeom, rotOut>>
exVars == <<exArgs, exOut, exDone, rotVars>>
filterVars == <<_style, _styleDirty, _extrusionSymbol, _heightExpr, _heightOffsetExpr,
                _wallSkinSymbol, _roofSkinSymbol, _wallResLib, _roofResLib,
                _heightCallback, _geodes, geodeCount, pc, input, fi, pi, result, pushNo>>
vars == <<exVars, filterVars>>

\* the filter as its constructor leaves it
InitFilter ==
    /\ _style = [extrusion |-> NullSym, skin |-> NullSym]
    /\ _styleDirty = TRUE
    /\ _extrusionSymbol = NullSym
    /\ _heightExpr = Unset
    /\ _heightOffsetExpr = Unset
    /\ _wallSkinSymbol = NullSym
    /\ _roofSkinSymbol = NullSym
    /\ _wallResLib = Unset
    /\ _roofResLib = Unset
    /\ _heightCallback = NULL
    /\ _geodes = <<>>
    /\ geodeCount = 0
    /\ pc = "idle"
    /\ input = <<>>
    /\ fi = 1
    /\ pi = 1
    /\ result = NoGroup
    /\ pushNo = 0

\* ---------------------------------------------------------- SpecExtrude
InitExtrude ==
    /\ exArgs \in [input : Inputs, height : Heights, heightOffset : Offsets,
                   flatten : BOOLEAN, roof : BOOLEAN, base : BOOLEAN,
                   wallSkin : {NoSkin}]
    /\ exOut = NoCall
    /\ exDone = FALSE
    /\ rotGeom = <<>>
    /\ rotOut = NoRotation
    /\ InitFilter

CallExtrude ==
    /\ ~exDone
    /\ exOut' = extrudeGeometry(exArgs)
    /\ exDone' = TRUE
    /\ UNCHANGED <<exArgs, rotVars, filterVars>>

NextExtrude == CallExtrude

SpecExtrude == InitExtrude /\ [][NextExtrude]_vars

\* ---------------------------------------------------------- SpecRotation
\* one call of getApparentRotation on a ring
InitRotation ==
    /\ rotGeom \in Rings
    /\ rotOut = NoRotation
    /\ exArgs = [input |-> [type |-> POLYGON, parts |-> <<>>], height |-> 1,
                 heightOffset |-> 0, flatten |-> FALSE, roof |-> FALSE, base |-> FALSE,
                 wallSkin |-> NoSkin]
    /\ exOut = NoCall
    /\ exDone = FALSE
    /\ InitFilter

CallRotation ==
    /\ rotOut = NoRotation
    /\ rotOut' = getApparentRotation(rotGeom)
    /\ UNCHANGED <<exArgs, exOut, exDone, rotGeom, filterVars>>

NextRotation == CallRotation

SpecRotation == InitRotation /\ [][NextRotation]_vars

\* ---------------------------------------------------------- SpecTexture
\* one call of extrudeGeometry with a wall skin: polygons whose parts are
\* level at 0 or alternate between 0 and 1
TexPatterns == {<<0, FALSE>>, <<0, TRUE>>}
TexInputs ==
    UNION {{BuildInput(POLYGON, prof, pats) : pats \in [1..Len(prof) -> TexPatterns]}
           : prof \in Profiles}
TexOffsets == {0, 1, 3}
WallSkins ==
    {[imageWidth |-> 2, imageHeight |-> h, isTiled |-> t] : h \in {1, 3}, t \in BOOLEAN}

InitTexture ==
    /\ exArgs \in [input : TexInputs, height : Heights, heightOffset : TexOffsets,
                   flatten : BOOLEAN, roof : {FALSE}, base : {FALSE},
                   wallSkin : WallSkins \cup {NoSkin}]
    /\ exOut = NoCall
    /\ exDone = FALSE
    /\ rotGeom = <<>>
    /\ rotOut = NoRotation
    /\ InitFilter

SpecTexture == InitTexture /\ [][NextExtrude]_vars

\* ------------------------------------------------------------ the filter
\* setStyle
SetStyle ==
    /\ pc = "idle"
    /\ \E style \in Styles :
         /\ _style' = style
         /\ _styleDirty' = TRUE
    /\ UNCHANGED <<exVars, pushNo, _extrusionSymbol, _heightExpr, _heightOffsetExpr,
                   _wallSkinSymbol, _roofSkinSymbol, _wallResLib, _roofResLib,
                   _heightCallback, _geodes, geodeCount, pc, input, fi, pi, result>>

\* setHeightCallback
SetHeightCallback ==
    /\ pc = "idle"
    /\ \E cb \in {NULL, 1} :
         /\ cb # _heightCallback
         /\ _heightCallback' = cb
    /\ UNCHANGED <<exVars, pushNo, _style, _styleDirty, _extrusionSymbol, _heightExpr,
                   _heightOffsetExpr, _wallSkinSymbol, _roofSkinSymbol, _wallResLib,
                   _roofResLib, _geodes, geodeCount, pc, input, fi, pi, result>>

\* reset, the part guarded by _styleDirty: the symbols taken from the style.
\* f holds the members reset may assign.
ResetSymbols(f, style) ==
    LET sym      == style.extrusion
        wallSkin == IF sym # NullSym /\ sym.wallStyleName # Unset
                    THEN SheetSkin(sym.wallStyleName) ELSE NullSym
        roofSkin == IF sym # NullSym /\ sym.roofStyleName # Unset
                    THEN SheetSkin(sym.roofStyleName) ELSE NullSym
    IN  [_extrusionSymbol  |-> sym,
         _heightExpr       |-> IF sym # NullSym /\ sym.heightExpression # Unset
                               THEN sym.heightExpression ELSE f._heightExpr,
         _heightOffsetExpr |-> IF sym # NullSym /\ sym.heightReference = HEIGHT_REFERENCE_MSL
                               THEN "[__max_z]" ELSE f._heightOffsetExpr,
         _wallSkinSymbol   |-> IF style.skin # NullSym /\ wallSkin = NullSym
                               THEN style.skin ELSE wallSkin,
         _roofSkinSymbol   |-> IF style.skin # NullSym /\ roofSkin = NullSym
                               THEN style.skin ELSE roofSkin]

\* variant: push goes on without the check
MissingExtrusionSymbol_Never(sym) == FALSE

\* "minimally, we require an extrusion symbol"
MissingExtrusionSymbol(sym) == sym = NullSym

\* the library push establishes for a skin symbol
ResLib(skinSymbol) ==
    IF skinSymbol # NullSym /\ skinSymbol.libraryName # Unset
    THEN getResourceLibrary(skinSymbol.libraryName)
    ELSE Unset

\* variant: the map keeps its entries
ClearedGeodes_Keep(geodes) == geodes

\* _geodes.clear()
ClearedGeodes(geodes) == <<>>

\* push, up to the call of process: reset, the extrusion symbol check, the
\* resource libraries
PushStart ==
    /\ pc = "idle"
    /\ \E features \in FeatureLists :
         LET f0 == [_extrusionSymbol  |-> _extrusionSymbol,
                    _heightExpr       |-> _heightExpr,
                    _heightOffsetExpr |-> _heightOffsetExpr,
                    _wallSkinSymbol   |-> _wallSkinSymbol,
                    _roofSkinSymbol   |-> _roofSkinSymbol]
             f  == IF _styleDirty THEN ResetSymbols(f0, _style) ELSE f0
         IN  /\ input' = features
             /\ _geodes' = ClearedGeodes(_geodes)
             /\ geodeCount' = 0
             /\ _styleDirty' = FALSE
             /\ _extrusionSymbol' = f._extrusionSymbol
             /\ _heightExpr' = f._heightExpr
             /\ _heightOffsetExpr' = f._heightOffsetExpr
             /\ _wallSkinSymbol' = f._wallSkinSymbol
             /\ _roofSkinSymbol' = f._roofSkinSymbol
             /\ fi' = 1
             /\ pi' = 1
             /\ IF MissingExtrusionSymbol(f._extrusionSymbol)
                THEN /\ result' = [children |-> <<>>]
                     /\ pc' = "returned"
                     /\ UNCHANGED <<_wallResLib, _roofResLib>>
                ELSE /\ _wallResLib' = ResLib(f._wallSkinSymbol)
                     /\ _roofResLib' = ResLib(f._roofSkinSymbol)
                     /\ result' = NoGroup
                     /\ pc' = "process"
    /\ UNCHANGED <<exVars, _style, _heightCallback>>

PushBegin == PushStart /\ UNCHANGED pushNo

\* push in SpecPushes, which counts the pushes
PushCounted ==
    /\ pushNo < MaxPushes
    /\ PushStart
    /\ pushNo' = pushNo + 1

\* variant: the height expression is tried before the callback
ResolveHeight_ExprFirst(callback, sym, heightExpr, feature) ==
    IF sym.heightExpression # Unset THEN Eval(heightExpr, feature)
    ELSE IF callback # NULL THEN CallbackHeight(feature)
    ELSE sym.height

\* "calculate the extrusion height"
ResolveHeight(callback, sym, heightExpr, feature) ==
    IF callback # NULL THEN CallbackHeight(feature)
    ELSE IF sym.heightExpression # Unset THEN Eval(heightExpr, feature)
    ELSE sym.height

\* "calculate the height offset from the base"
ResolveOffset(heightOffsetExpr, feature) ==
    IF heightOffsetExpr # Unset THEN Eval(heightOffsetExpr, feature) ELSE 0

\* the skins a library query can end with: no candidate, the only
\* candidate, or any one of several (rand)
SelectableSkins(skinSymbol, lib) ==
    IF skinSymbol # NullSym /\ lib # Unset
    THEN UNION {IF c = {} THEN {NULL} ELSE c : c \in SUBSET LibSkins(lib)}
    ELSE {NULL}

\* ResourceCache::getStateSet: one state set per skin
getStateSet(skin) == skin

\* variant: a new geode replaces the one the key already has
AddWalls_AlwaysNewGeode(geodes, count, key, walls) ==
    [geodes |-> [k \in DOMAIN geodes \cup {key} |->
                   IF k = key
                   THEN [id |-> count + 1, stateSet |-> key, drawables |-> <<walls>>]
                   ELSE geodes[k]],
     count  |-> count + 1]

\* "find the geode for the active stateset", then addDrawable
AddWalls(geodes, count, key, walls) ==
    IF key \in DOMAIN geodes
    THEN [geodes |-> [geodes EXCEPT ![key].drawables = Append(@, walls)],
          count  |-> count]
    ELSE [geodes |-> [k \in DOMAIN geodes \cup {key} |->
                        IF k = key
                        THEN [id |-> count + 1, stateSet |-> key, drawables |-> <<walls>>]
                        ELSE geodes[k]],
          count  |-> count + 1]

\* variant: the rooftop goes to the geode of the wall state set
AddRooflines_ByWallState(geodes, count, key, rooflines) ==
    AddWalls(geodes, count, key, rooflines)

\* "sort the rooftops into the state-set-less geode" (a geode made here
\* gets no state set)
AddRooflines(geodes, count, key, rooflines) ==
    AddWalls(geodes, count, NULL, rooflines)

\* the walls join the geode of their state set, the rooflines of a polygon
\* the geode without state set
SortedGeodes(g1, isPoly, wallStateSet, rooflines) ==
    IF isPoly THEN AddRooflines(g1.geodes, g1.count, wallStateSet, rooflines) ELSE g1

\* process, after extrudeGeometry returned out: the meshes go to their geodes
\* if geometry was made
AddGeometry(out, src, wallSkin, roofSkin, isPoly) ==
    LET walls == [kind |-> "walls", src |-> src, skin |-> wallSkin,
                  verts |-> out.verts, prims |-> out.wallPrims]
        rooflines == [kind |-> "roof", src |-> src, skin |-> roofSkin,
                      verts |-> out.roofVerts, prims |-> out.roofPrims]
        wallStateSet == IF wallSkin # NULL THEN getStateSet(wallSkin) ELSE NULL
        g2 == SortedGeodes(AddWalls(_geodes, geodeCount, wallStateSet, walls),
                           isPoly, wallStateSet, rooflines)
    IN  IF out.made_geom
        THEN _geodes' = g2.geodes /\ geodeCount' = g2.count
        ELSE UNCHANGED <<_geodes, geodeCount>>

\* process: the body of the loop for one top-level part of one feature
ProcessPart ==
    /\ pc = "process"
    /\ fi <= Len(input)
    /\ LET feature  == input[fi]
           part0    == feature.geom[pi]
           isPoly   == part0.type = POLYGON
           part     == IF isPoly THEN Open(part0) ELSE part0
           lastPart == pi = Len(feature.geom)
       IN  /\ input' = [input EXCEPT ![fi].geom[pi] = part]
           /\ fi' = IF lastPart THEN fi + 1 ELSE fi
           /\ pi' = IF lastPart THEN 1 ELSE pi + 1
           /\ IF _extrusionSymbol = NullSym
              THEN \* a null _extrusionSymbol is dereferenced
                   /\ pc' = "fault"
                   /\ UNCHANGED <<_geodes, geodeCount>>
              ELSE /\ pc' = pc
                   /\ \E wallSkin \in SelectableSkins(_wallSkinSymbol, _wallResLib),
                         roofSkin \in SelectableSkins(_roofSkinSymbol, _roofResLib) :
                        LET height == ResolveHeight(_heightCallback, _extrusionSymbol,
                                                    _heightExpr, feature)
                            offset == ResolveOffset(_heightOffsetExpr, feature)
                            a   == [input |-> part, height |-> height,
                                    heightOffset |-> offset,
                                    flatten |-> _extrusionSymbol.flatten,
                                    roof |-> isPoly, base |-> FALSE,
                                    wallSkin |-> IF wallSkin # NULL
                                                 THEN SkinResource(wallSkin)
                                                 ELSE NoSkin]
                            src == [f |-> fi, p |-> pi, height |-> height,
                                    offset |-> offset, push |-> pushNo]
                        IN  AddGeometry(extrudeGeometry(a), src, wallSkin, roofSkin, isPoly)
    /\ UNCHANGED <<exVars, pushNo, _style, _styleDirty, _extrusionSymbol, _heightExpr,
                   _heightOffsetExpr, _wallSkinSymbol, _roofSkinSymbol, _wallResLib,
                   _roofResLib, _heightCallback, result>>

\* the keys of a geode map in the order std::map iterates them
RECURSIVE SortedKeys(_)
SortedKeys(K) ==
    IF K = {} THEN <<>>
    ELSE LET m == CHOOSE x \in K : \A y \in K : x <= y
         IN  <<m>> \o SortedKeys(K \ {m})

\* push, after process: the geodes become the children of the group
PushEnd ==
    /\ pc = "process"
    /\ fi > Len(input)
    /\ LET keys == SortedKeys(DOMAIN _geodes)
       IN  result' = [children |-> [i \in 1..Len(keys) |-> _geodes[keys[i]]]]
    /\ _geodes' = ClearedGeodes(_geodes)
    /\ pc' = "returned"
    /\ UNCHANGED <<exVars, pushNo, _style, _styleDirty, _extrusionSymbol, _heightExpr,
                   _heightOffsetExpr, _wallSkinSymbol, _roofSkinSymbol, _wallResLib,
                   _roofResLib, _heightCallback, geodeCount, input, fi, pi>>

\* the caller takes the group push returned
Return ==
    /\ pc = "returned"
    /\ pc' = "idle"
    /\ result' = NoGroup
    /\ input' = <<>>
    /\ fi' = 1
    /\ pi' = 1
    /\ geodeCount' = 0
    /\ UNCHANGED <<exVars, pushNo, _style, _styleDirty, _extrusionSymbol, _heightExpr,
                   _heightOffsetExpr, _wallSkinSymbol, _roofSkinSymbol, _wallResLib,
                   _roofResLib, _heightCallback, _geodes>>

Init ==
    /\ InitFilter
    /\ exArgs = [input |-> [type |-> POLYGON, parts |-> <<>>], height |-> 1,
                 heightOffset |-> 0, flatten |-> FALSE, roof |-> FALSE, base |-> FALSE,
                 wallSkin |-> NoSkin]
    /\ exOut = NoCall
    /\ exDone = FALSE
    /\ rotGeom = <<>>
    /\ rotOut = NoRotation

Next ==
    \/ SetStyle
    \/ SetHeightCallback
    \/ PushBegin
    \/ ProcessPart
    \/ PushEnd
    \/ Return

Spec == Init /\ [][Next]_vars

\* a session of setStyle and push calls with the pushes counted
NextPushes ==
    \/ SetStyle
    \/ PushCounted
    \/ ProcessPart
    \/ PushEnd
    \/ Return

SpecPushes == Init /\ [][NextPushes]_vars

\* ------------------------------------------- claims about extrudeGeometry
exParts == exArgs.input.parts
exPointCount == SumLen(exParts)
\* number of points in the parts before part j
PartStart(j) == SumLen(SubSeq(exParts, 1, j - 1))
AllPoints == {exParts[j][k] : <<j, k>> \in {jk \in (1..Len(exParts)) \X (1..MaxLen + 1) :
                                             jk[2] <= Len(exParts[jk[1]])}}
SetMax(S) == CHOOSE m \in S : \A x \in S : x <= m

\* the six indices of the wall segment that starts at vertex v
Quad(v) == <<v, v + 1, v + 2, v + 1, v + 3, v + 2>>
\* the triangles of an index list, as sets of vertices
Triangles(idx) == {{idx[3 * t + 1], idx[3 * t + 2], idx[3 * t + 3]} : t \in 0..(Len(idx) \div 3 - 1)}

\* C1: a POLYGON shape yields 2 vertices per point; every part of N >= 3
\* points yields 6N indices: point i < N-1 the triangles (2i,2i+1,2i+2),
\* (2i+1,2i+3,2i+2), the last point the closing triangles (2N-2,2N-1,0),
\* (2N-1,1,0), all counted from the part's first vertex pair.
C1_PolygonWallMesh ==
    (exDone /\ exArgs.input.type = POLYGON) =>
        /\ DOMAIN exOut.verts = 0..(2 * exPointCount - 1)
        /\ Len(exOut.wallPrims) = Len(exParts)
        /\ \A j \in 1..Len(exParts) :
             LET n   == Len(exParts[j])
                 s   == 2 * PartStart(j)
                 idx == exOut.wallPrims[j]
             IN  n >= 3 =>
                   /\ Len(idx) = 6 * n
                   /\ \A i \in 0..(n - 2) :
                        SubSeq(idx, 6 * i + 1, 6 * i + 6) = Quad(s + 2 * i)
                   /\ SubSeq(idx, 6 * n - 5, 6 * n) =
                        <<s + 2 * n - 2, s + 2 * n - 1, s, s + 2 * n - 1, s + 1, s>>

\* a two-part polygon, both parts of at least 3 points, has been extruded
C1_Witness ==
    /\ exDone /\ exArgs.input.type = POLYGON
    /\ Len(exParts) = 2 /\ Len(exParts[1]) >= 3 /\ Len(exParts[2]) >= 3
    /\ Len(exOut.wallPrims[2]) = 6 * Len(exParts[2])

\* C2: a LINE shape yields 2 vertices per point; every part of N >= 2 points
\* yields exactly the 2(N-1) triangles of its N-1 segments, none for its last
\* point, and (N >= 3) no triangle joins the last vertex pair to the first.
C2_LineWallMesh ==
    (exDone /\ exArgs.input.type = LINESTRING) =>
        /\ DOMAIN exOut.verts = 0..(2 * exPointCount - 1)
        /\ \A j \in 1..Len(exParts) :
             LET n   == Len(exParts[j])
                 s   == 2 * PartStart(j)
                 idx == exOut.wallPrims[j]
             IN  n >= 2 =>
                   /\ Len(idx) = 6 * (n - 1)
                   /\ \A i \in 0..(n - 2) :
                        SubSeq(idx, 6 * i + 1, 6 * i + 6) = Quad(s + 2 * i)
                   /\ n >= 3 => \A t \in Triangles(idx) :
                        ~ (/\ t \cap {s, s + 1} # {}
                           /\ t \cap {s + 2 * n - 2, s + 2 * n - 1} # {})

\* a line of at least 3 points has been extruded
C2_Witness ==
    /\ exDone /\ exArgs.input.type = LINESTRING
    /\ \E j \in 1..Len(exParts) :
         Len(exParts[j]) >= 3 /\ Len(exOut.wallPrims[j]) = 6 * (Len(exParts[j]) - 1)

\* C3: with flatten, every roof vertex of every part (wall vertices 2i and
\* the roof outline) lies at max over all points of (z + height), minus the
\* height offset.
C3_FlattenElevation ==
    (exDone /\ exArgs.flatten /\ exPointCount > 0) =>
        LET target == SetMax({p[3] + exArgs.height : p \in AllPoints}) - exArgs.heightOffset
        IN  /\ \A i \in 0..(exPointCount - 1) : exOut.verts[2 * i][3] = target
            /\ exArgs.roof => \A i \in 0..(exPointCount - 1) : exOut.roofVerts[i][3] = target

\* a flattened two-part shape whose parts have different base elevations
C3_Witness ==
    /\ exDone /\ exArgs.flatten /\ exArgs.roof
    /\ Len(exParts) = 2 /\ Len(exParts[1]) >= 2 /\ Len(exParts[2]) >= 2
    /\ \A p \in {exParts[1][k] : k \in 1..Len(exParts[1])} : p[3] = 0
    /\ \A p \in {exParts[2][k] : k \in 1..Len(exParts[2])} : p[3] = 1
    /\ exOut.roofVerts[0][3] = exOut.roofVerts[exPointCount - 1][3]

\* C4: when a base is requested, the base vertices in every part's index
\* range are that part's points in reverse order.
C4_BaseReversed ==
    (exDone /\ exArgs.base) =>
        \A j \in 1..Len(exParts) :
            LET n == Len(exParts[j])
            IN  \A k \in 1..n :
                  exOut.baseVerts[PartStart(j) + k - 1] = exParts[j][n + 1 - k]

\* --------------------------------------------- claims about the filter
\* the geodes of the running push: in the map, or in the returned group
Geodes ==
    IF pc = "returned"
    THEN {result.children[i] : i \in 1..Len(result.children)}
    ELSE {_geodes[k] : k \in DOMAIN _geodes}
Drawables(g) == {g.drawables[i] : i \in 1..Len(g.drawables)}
Meshes == UNION {Drawables(g) : g \in Geodes}
\* the top-level parts process has finished with, as <<feature, part>>
Processed ==
    {fp \in UNION {{<<f, p>> : p \in 1..Len(input[f].geom)} : f \in 1..Len(input)} :
        fp[1] < fi \/ (fp[1] = fi /\ fp[2] < pi)}
PartOf(fp) == input[fp[1]].geom[fp[2]]
IsPrefix(s, t) == Len(s) <= Len(t) /\ SubSeq(t, 1, Len(s)) = s

\* C5: a push under a style whose height reference is not mean-sea-level
\* extrudes every shape with height offset zero, whatever styles came before.
C5_OffsetZeroUnlessMSL ==
    \A m \in Meshes :
        (_style.extrusion # NullSym
           /\ _style.extrusion.heightReference # HEIGHT_REFERENCE_MSL)
        => m.src.offset = 0

\* C6: a top-level part with fewer than 2 points puts no wall and no roof
\* mesh into any container (of the map, or of the group push returns).
C6_DegenerateShapeSkipped ==
    \A m \in Meshes : getTotalPointCount(PartOf(<<m.src.f, m.src.p>>)) >= 2

\* the map between two steps of process: its keys are the keys referenced so
\* far, no container is empty or shared, every wall mesh made so far sits
\* in the container of its key
C7_MapInv ==
    pc = "process" =>
        /\ DOMAIN _geodes =
             {IF m.skin # NULL THEN getStateSet(m.skin) ELSE NULL :
                  m \in {x \in Meshes : x.kind = "walls"}}
             \cup {NULL : m \in {x \in Meshes : x.kind = "roof"}}
        /\ \A k \in DOMAIN _geodes :
             /\ _geodes[k].drawables # <<>>
             /\ \A m \in Drawables(_geodes[k]) :
                  m.kind = "walls" => k = (IF m.skin # NULL THEN getStateSet(m.skin) ELSE NULL)
        /\ \A k1, k2 \in DOMAIN _geodes : k1 # k2 => _geodes[k1].id # _geodes[k2].id
        /\ {<<m.src.f, m.src.p>> : m \in {x \in Meshes : x.kind = "walls"}} =
             {fp \in Processed : getTotalPointCount(PartOf(fp)) > 0}
\* a step of process keeps every container and the meshes already in it
C7_MapStep ==
    (pc = "process" /\ pc' = "process") =>
        \A k \in DOMAIN _geodes :
            /\ k \in DOMAIN _geodes'
            /\ _geodes'[k].id = _geodes[k].id
            /\ IsPrefix(_geodes[k].drawables, _geodes'[k].drawables)
\* C7: during process the map holds exactly one container per state key
\* referenced so far (the null key included); a later shape with the same key
\* appends to that container, and no mesh already placed is removed or moved.
C7_OneContainerPerKey == [](C7_MapInv) /\ [][C7_MapStep]_vars

\* two features have put their walls into one container, next to a second
\* container under another key
C7_Witness ==
    /\ pc = "process"
    /\ Cardinality(DOMAIN _geodes) >= 2
    /\ \E k \in DOMAIN _geodes : \E m1, m2 \in Drawables(_geodes[k]) :
         m1.kind = "walls" /\ m2.kind = "walls" /\ m1.src.f # m2.src.f

\* C8: push does not fault and returns a group without children when the
\* feature list is empty or the style has no extrusion symbol; without the
\* symbol no feature is processed and no container is made.
C8_EmptyResult ==
    /\ pc = "fault" => ~ (input = <<>> \/ _style.extrusion = NullSym)
    /\ (pc = "returned" /\ (input = <<>> \/ _style.extrusion = NullSym)) =>
           /\ result # NoGroup
           /\ result.children = <<>>
    /\ (pc = "returned" /\ _style.extrusion = NullSym) =>
           /\ Processed = {}
           /\ geodeCount = 0

\* push has returned from a style without extrusion symbol and a list of features
C8_Witness ==
    /\ pc = "returned"
    /\ _style.extrusion = NullSym
    /\ input # <<>>
    /\ result = [children |-> <<>>]

\* C9: the height of every shape is the callback's if a callback is
\* installed, else the style's height expression on the feature if the
\* symbol sets one, else the symbol's fixed height.
C9_HeightPriority ==
    \A m \in Meshes :
        LET feature == input[m.src.f]
            sym     == _style.extrusion
        IN  m.src.height =
              IF _heightCallback # NULL THEN CallbackHeight(feature)
              ELSE IF sym.heightExpression # Unset
                   THEN Eval(sym.heightExpression, feature)
                   ELSE sym.height

\* a shape was extruded with the callback's height although the symbol sets
\* a height expression
C9_Witness ==
    /\ _heightCallback # NULL
    /\ _style.extrusion # NullSym
    /\ _style.extrusion.heightExpression # Unset
    /\ \E m \in Meshes : m.src.height = CallbackHeight(input[m.src.f])

\* C10: every roof mesh is in the container of the null key and nowhere
\* else, and every polygon part that yielded geometry has its roof there.
C10_RoofsInNoStateGeode ==
    /\ \A g \in Geodes : \A m \in Drawables(g) : m.kind = "roof" => g.stateSet = NULL
    /\ pc = "process" =>
         /\ \A k \in DOMAIN _geodes : \A m \in Drawables(_geodes[k]) :
              m.kind = "roof" => k = NULL
         /\ \A fp \in Processed :
              (PartOf(fp).type = POLYGON /\ getTotalPointCount(PartOf(fp)) > 0) =>
                  /\ NULL \in DOMAIN _geodes
                  /\ \E m \in Drawables(_geodes[NULL]) :
                       m.kind = "roof" /\ m.src.f = fp[1] /\ m.src.p = fp[2]

\* a textured roof sits in the null-key container while the walls of the
\* same shape sit in the container of a wall skin
C10_Witness ==
    /\ pc = "process"
    /\ NULL \in DOMAIN _geodes
    /\ \E r \in Drawables(_geodes[NULL]) :
         /\ r.kind = "roof" /\ r.skin # NULL
         /\ \E k \in DOMAIN _geodes \ {NULL} : \E w \in Drawables(_geodes[k]) :
              w.kind = "walls" /\ w.src = r.src

\* C11: when a push returns, on the normal path and on the missing-symbol
\* path, the state-key map is empty, and every container of the returned
\* group holds only meshes this push made from its own feature list, none
\* from an earlier push.
C11_PushReturnsFresh ==
    pc = "returned" =>
        /\ _geodes = <<>>
        /\ \A i \in 1..Len(result.children) :
             /\ result.children[i].drawables # <<>>
             /\ \A m \in Drawables(result.children[i]) :
                  /\ m.src.push = pushNo
                  /\ m.src.f \in 1..Len(input)
                  /\ m.src.p \in 1..Len(input[m.src.f].geom)
                  /\ m.kind = "walls" =>
                       LET part == input[m.src.f].geom[m.src.p]
                           n    == getTotalPointCount(part)
                       IN  /\ DOMAIN m.verts = 0..(2 * n - 1)
                           /\ \A j \in 1..Len(part.parts) : \A k \in 1..Len(part.parts[j]) :
                                m.verts[2 * (SumLen(SubSeq(part.parts, 1, j - 1)) + k - 1) + 1]
                                    = part.parts[j][k]

\* the second push of a session has returned a group with meshes
C11_Witness ==
    /\ pc = "returned"
    /\ pushNo = 2
    /\ result.children # <<>>
    /\ \E m \in Drawables(result.children[1]) : m.src.push = 2

\* the positions <<part, point>> of the shape's points
exPositions ==
    {jk \in (1..Len(exParts)) \X (1..MaxLen + 1) : jk[2] <= Len(exParts[jk[1]])}
\* the rank of a position among all points, in processing order
exRank(jk) == PartStart(jk[1]) + jk[2] - 1

\* C16: for the i-th point (x,y,z) of the shape, counted across all parts,
\* wall vertex 2i is the roof point and wall vertex 2i+1 the unmodified
\* input point; without flatten the roof point is (x, y, z + height -
\* offset); the i-th vertex of a requested roof mesh equals wall vertex 2i.
C16_VertexLayout ==
    exDone =>
        \A jk \in exPositions :
            LET i  == exRank(jk)
                pt == exParts[jk[1]][jk[2]]
            IN  /\ exOut.verts[2 * i + 1] = pt
                /\ exOut.verts[2 * i][1] = pt[1]
                /\ exOut.verts[2 * i][2] = pt[2]
                /\ ~exArgs.flatten =>
                     exOut.verts[2 * i] =
                         <<pt[1], pt[2], pt[3] + exArgs.height - exArgs.heightOffset>>
                /\ exArgs.roof => exOut.roofVerts[i] = exOut.verts[2 * i]

\* a two-part shape of uneven elevations was extruded without flatten, with
\* a height offset and a roof mesh
C16_Witness ==
    /\ exDone /\ ~exArgs.flatten /\ exArgs.roof
    /\ exArgs.heightOffset = 1 /\ exArgs.height = 2
    /\ Len(exParts) = 2 /\ Len(exParts[1]) >= 2 /\ Len(exParts[2]) >= 2
    /\ exParts[2][1][3] # exParts[2][2][3]
    /\ exOut.roofVerts[exPointCount - 1] = exOut.verts[2 * exPointCount - 2]
    /\ exOut.verts[2 * exPointCount - 2] # exOut.verts[2 * exPointCount - 1]

\* the roof vertices the line loop of part j draws
RoofLoop(j) ==
    {exOut.roofPrims[j][1] + d : d \in 0..(exOut.roofPrims[j][2] - 1)}

\* C18: for a shape of any number of parts of any sizes, every wall index is
\* below 2 x the total point count, the index list of each part refers only
\* to vertices of that part's own range [2*start, 2*(start+n)), and the roof
\* line loops of the parts are disjoint ranges that together cover exactly
\* the roof vertices 0..pointCount-1.
C18_IndicesInRange ==
    exDone =>
        /\ Len(exOut.wallPrims) = Len(exParts)
        /\ \A j \in 1..Len(exParts) :
             LET idx == exOut.wallPrims[j]
                 s   == PartStart(j)
                 n   == Len(exParts[j])
             IN  \A t \in 1..Len(idx) :
                     /\ idx[t] \in DOMAIN exOut.verts
                     /\ idx[t] < 2 * exPointCount
                     /\ 2 * s <= idx[t] /\ idx[t] < 2 * (s + n)
        /\ exArgs.roof =>
             /\ Len(exOut.roofPrims) = Len(exParts)
             /\ \A j1, j2 \in 1..Len(exParts) :
                  j1 # j2 => RoofLoop(j1) \cap RoofLoop(j2) = {}
             /\ UNION {RoofLoop(j) : j \in 1..Len(exParts)} = 0..(exPointCount - 1)
             /\ DOMAIN exOut.roofVerts = 0..(exPointCount - 1)

\* a polygon of a one-point part and a part of three points was extruded
\* with a roof
C18_Witness ==
    /\ exDone /\ exArgs.roof /\ exArgs.input.type = POLYGON
    /\ Len(exParts) = 2 /\ Len(exParts[1]) = 1 /\ Len(exParts[2]) = 3
    /\ Len(exOut.wallPrims[1]) = 6 /\ Len(exOut.wallPrims[2]) = 18
    /\ RoofLoop(1) = {0} /\ RoofLoop(2) = {1, 2, 3}

\* ------------------------------------- claims about the wall texture
\* the height of the walls as pass 1 leaves it: the target elevation less
\* the lowest elevation of the shape
exMaxHeight ==
    LET zs == {pt[3] : pt \in AllPoints}
    IN  SetMax(zs) + exArgs.height - exArgs.heightOffset - (-SetMax({-z : z \in zs}))
\* the tile height adjusted to the walls
exAdjustedTileHeight == AdjustedTexHeight(exMaxHeight, exArgs.wallSkin.imageHeight)
exTextured == exDone /\ exArgs.wallSkin # NoSkin /\ exPointCount > 0

\* C12: with a wall skin, texture V is 0 at the roof vertex of every point
\* and -segmentHeight/adjustedTileHeight at the paired base vertex, where
\* segmentHeight is the adjusted tile height in stretch mode (so V = -1) and
\* the distance between the emitted roof and base vertex in repeat mode.
C12_WallTexV ==
    exTextured =>
        \A jk \in exPositions :
            LET i    == exRank(jk)
                roof == exOut.verts[2 * i]
                base == exOut.verts[2 * i + 1]
            IN  /\ exOut.texcoords[2 * i][2] = Rat(0, 1)
                /\ exOut.texcoords[2 * i + 1][2] =
                      IF exArgs.wallSkin.isTiled
                      THEN RatDiv(Rat(-Abs(roof[3] - base[3]), 1), exAdjustedTileHeight)
                      ELSE Rat(-1, 1)

\* C13: the repeat count round(maxHeight/tileHeight) is replaced by 1 when
\* it rounds to zero, and for every height, offset and elevations (also when
\* maxHeight = 0) no division by zero occurs in the adjusted tile height or
\* in the wall texture coordinates divided by it.
C13_NoDivisionByZero ==
    exTextured =>
        /\ IsFinite(exAdjustedTileHeight)
        /\ Round(Rat(exMaxHeight, exArgs.wallSkin.imageHeight)) = 0
              => exAdjustedTileHeight = Rat(exMaxHeight, 1)
        /\ \A v \in DOMAIN exOut.texcoords : IsFinite(exOut.texcoords[v][2])

\* the sum of the distances between the consecutive roof vertices of part j
\* up to its k-th point
RoofPathLength(j, k) ==
    LET sq(m) == Length2(exOut.verts[2 * (PartStart(j) + m - 1)],
                         exOut.verts[2 * (PartStart(j) + m - 2)])
        D     == {sq(m) : m \in 2..k} \ {0}
    IN  [d \in D |-> Cardinality({m \in 2..k : sq(m) = d})]

\* C17: with a wall skin, within every part the texture U of a point's roof
\* vertex and base vertex are equal; U is 0 at the first point of the part
\* and at a later point the sum of the distances between the consecutive
\* roof vertices of the part up to that point, divided by the tile width;
\* so U does not decrease along a part.
C17_WallTexU ==
    exTextured =>
        \A jk \in exPositions :
            LET i == exRank(jk)
                u == exOut.texcoords[2 * i][1]
            IN  /\ exOut.texcoords[2 * i + 1][1] = u
                /\ u.per = exArgs.wallSkin.imageWidth
                /\ jk[2] = 1 => u.len = NoLength
                /\ u.len = RoofPathLength(jk[1], jk[2])
                /\ jk[2] > 1 => exOut.texcoords[2 * i - 2][1].len \sqsubseteq u.len

\* a textured polygon of two parts of uneven elevations was extruded without
\* flatten: U restarts at the second part and grows along it
C17_Witness ==
    /\ exTextured /\ ~exArgs.flatten
    /\ Len(exParts) = 2 /\ Len(exParts[1]) >= 2 /\ Len(exParts[2]) >= 3
    /\ exParts[2][1][3] # exParts[2][2][3]
    /\ exOut.texcoords[2 * PartStart(2)][1].len = NoLength
    /\ exOut.texcoords[2 * PartStart(2) + 2][1].len # NoLength
    /\ exOut.texcoords[2 * exPointCount - 1][1].len
          # exOut.texcoords[2 * PartStart(2) + 2][1].len

\* ------------------------------------ claims about getApparentRotation
rotDone == rotOut # NoRotation
rotLen2(i) == Length2(Segments(rotGeom)[i][2], Segments(rotGeom)[i][1])
rotMaxLen2 == SetMax({rotLen2(i) : i \in 1..Len(Segments(rotGeom))} \cup {0})
\* the first segment in scan order that is as long as the longest
rotFirstLongest ==
    Segments(rotGeom)[CHOOSE i \in 1..Len(Segments(rotGeom)) :
                          /\ rotLen2(i) = rotMaxLen2
                          /\ \A k \in 1..(i - 1) : rotLen2(k) < rotMaxLen2]
UnitSquare == <<<<0, 0, 0>>, <<1, 0, 0>>, <<1, 1, 0>>, <<0, 1, 0>>>>

\* C14 as stated: getApparentRotation retains the first edge in scan order
\* (the closing edge included) whose squared length equals the maximum over
\* all edges, a later edge of equal length never replacing it; the unit
\* square gives the edge (0,0)->(1,0) and the angle 0.
C14_FirstLongestEdge ==
    rotDone =>
        /\ Segments(rotGeom) # <<>> => rotOut.n = rotFirstLongest
        /\ rotGeom = UnitSquare =>
             /\ rotOut.n = <<<<0, 0, 0>>, <<1, 0, 0>>>>
             /\ rotOut.angle = ZeroAngle

\* C14 amended: the first edge of maximum squared length is retained when
\* that maximum is positive; when every edge has length zero (or there is no
\* edge) no edge is retained, the segment stays a pair of zero vectors and
\* the angle is 0. The unit square gives the edge (0,0)->(1,0) and angle 0.
C14_FirstLongestEdgeIfAny ==
    rotDone =>
        /\ rotMaxLen2 > 0 => rotOut.n = rotFirstLongest
        /\ rotMaxLen2 = 0 => rotOut.n = ZeroSegment /\ rotOut.angle = ZeroAngle
        /\ rotGeom = UnitSquare =>
             /\ rotOut.n = <<<<0, 0, 0>>, <<1, 0, 0>>>>
             /\ rotOut.angle = ZeroAngle

\* the unit square has been measured: four edges of length 1, the first kept
C14_Witness ==
    /\ rotDone
    /\ rotGeom = UnitSquare
    /\ \A i \in 1..4 : rotLen2(i) = 1
    /\ rotOut.n = <<<<0, 0, 0>>, <<1, 0, 0>>>>

\* C15 as stated: the retained edge is oriented so that its first endpoint
\* has the smaller x, the endpoints keeping their order (first, second) when
\* their x are equal, and the angle is atan2(dy, dx) of that orientation.
C15_OrientedKeepingTies ==
    rotDone =>
        LET a  == rotOut.n[1]
            b  == rotOut.n[2]
            p1 == IF a[1] > b[1] THEN b ELSE a
            p2 == IF a[1] > b[1] THEN a ELSE b
        IN  rotOut.angle = Atan2(p2[2] - p1[2], p2[1] - p1[1])

\* C15 amended: the retained edge is oriented so that its first endpoint
\* has the smaller x; when their x are equal the endpoints are exchanged
\* (second, first); the angle is atan2(dy, dx) of that orientation, so a
\* vertical edge scanned upwards gives the angle of the downward direction.
C15_OrientedSwappingTies ==
    rotDone =>
        LET a  == rotOut.n[1]
            b  == rotOut.n[2]
            p1 == IF a[1] < b[1] THEN a ELSE b
            p2 == IF a[1] < b[1] THEN b ELSE a
        IN  /\ p1[1] <= p2[1]
            /\ a[1] = b[1] => p1 = b /\ p2 = a
            /\ rotOut.angle = Atan2(p2[2] - p1[2], p2[1] - p1[1])
            /\ (a[1] = b[1] /\ a[2] < b[2]) => rotOut.angle = [y |-> -1, x |-> 0]

\* a ring whose longest edge is vertical and scanned upwards was measured
C15_Witness ==
    /\ rotDone
    /\ rotOut.n[1][1] = rotOut.n[2][1]
    /\ rotOut.n[1][2] < rotOut.n[2][2]
    /\ rotOut.angle = [y |-> -1, x |-> 0]

====
